---- MODULE Spec2Model ----
(***************************************************************************)
(* Constrained hierarchical clustering of imageclust                        *)
(* (clustering/clustering.go): cluster-count estimation, Ward-linkage        *)
(* agglomeration under a size ceiling, splitting of oversized clusters and   *)
(* assembly of the cluster map.                                              *)
(*                                                                           *)
(* float32 values are modelled as exact rationals <<num, den>> with den > 0  *)
(* in lowest terms; math.MaxFloat32 is the value <<1, 0>>, which the         *)
(* comparison below places above every rational.  Positions in slices are    *)
(* 0-based as in the Go code; At(s, p) reads position p.                     *)
(***************************************************************************)
EXTENDS Integers, Sequences, FiniteSets, TLC

VARIABLES
    embeddings,           \* [][]float32 handed to the entry point
    productReferenceIDs,  \* []string, one per embedding
    minSize, maxSize,     \* size constraints of the run
    totalItems,           \* len(embeddings) / the estimator's first argument
    nClusters,            \* target cluster count returned by the estimator
    err,                  \* TRUE iff the estimator returned an error
    clusters,             \* live cluster list of the merge loop
    distanceMatrix,       \* pairwise Ward distances, by list position
    finalClusters,        \* cluster list after the splitting pass
    clusterMap,           \* returned map (Nil for the nil map)
    success,              \* returned boolean
    callArgs,             \* arguments of a helper function called on its own
    ret,                  \* value returned by a helper function called on its own
    mu,                   \* sync.Mutex guarding the two result slices
    wg,                   \* sync.WaitGroup counter
    errChan,              \* buffered error channel, oldest first
    netOutput,            \* memory the network's last forward pass wrote its output to
    goroutines,           \* per item: position and locals of its goroutine
    spawnIdx,             \* loop variable i of the spawning loop
    pc                    \* position in the function

vars == <<embeddings, productReferenceIDs, minSize, maxSize, totalItems,
          nClusters, err, clusters, distanceMatrix, finalClusters,
          clusterMap, success, callArgs, ret, pc,
         mu, wg, errChan, netOutput, goroutines, spawnIdx>>

\* the state of the concurrent embedding stage
upstream == <<mu, wg, errChan, netOutput, goroutines, spawnIdx>>

----------------------------------------------------------------------------
(* Bounds of the model *)

MaxItems == 6      \* most items of a general run
MaxCoord == 1      \* embedding coordinates range over 0..MaxCoord
EstMaxItems == 14  \* most items handed to the estimator on its own
EstMaxSize == 7    \* largest size constraint handed to the estimator on its own
WardMaxSize == 2   \* largest size of a cluster handed to WardDistance on its own
WardMaxDim == 2    \* longest centroid handed to WardDistance on its own
SplitMaxItems == 6 \* items of the batch a cluster handed to splitCluster is drawn from
SplitMaxSize == 2  \* largest maxSize handed to splitCluster on its own
ProbeMaxClusters == 4 \* longest cluster list on which every pair of positions is merged

----------------------------------------------------------------------------
(* float32 arithmetic as exact rationals *)

Abs(x) == IF x < 0 THEN -x ELSE x

RECURSIVE GCD(_, _)
GCD(a, b) == IF b = 0 THEN a ELSE GCD(b, a % b)

Rat(n, d) ==
    LET g == GCD(Abs(n), Abs(d))
        s == IF d < 0 THEN -1 ELSE 1
    IN  <<(s * n) \div g, (s * d) \div g>>

Float32(k) == <<k, 1>>
Zero == <<0, 1>>
RAdd(x, y) == Rat(x[1] * y[2] + y[1] * x[2], x[2] * y[2])
RSub(x, y) == Rat(x[1] * y[2] - y[1] * x[2], x[2] * y[2])
RMul(x, y) == Rat(x[1] * y[1], x[2] * y[2])
RDiv(x, y) == Rat(x[1] * y[2], x[2] * y[1])
RLess(x, y) == x[1] * y[2] < y[1] * x[2]

MaxFloat32 == <<1, 0>>

At(s, p) == s[p + 1]
RemoveAt(s, p) == SubSeq(s, 1, p) \o SubSeq(s, p + 2, Len(s))
Nil == "nil"

----------------------------------------------------------------------------
(* Cluster entity *)

NewCluster(index, embedding) ==
    [Indices |-> <<index>>, Size |-> 1, Centroid |-> embedding]

\* MergeClusters keeping a's members only
MergeClusters_DropsB(a, b) ==
    LET size == a.Size + b.Size
    IN  [Indices  |-> a.Indices,
         Size     |-> size,
         Centroid |-> [k \in 1..Len(a.Centroid) |->
                         RDiv(RAdd(RMul(Float32(a.Size), a.Centroid[k]),
                                   RMul(Float32(b.Size), b.Centroid[k])),
                              Float32(size))]]

\* MergeClusters averaging the two centroids without weighting them by size
MergeClusters_Unweighted(a, b) ==
    LET size == a.Size + b.Size
    IN  [Indices  |-> a.Indices \o b.Indices,
         Size     |-> size,
         Centroid |-> [k \in 1..Len(a.Centroid) |->
                         RDiv(RAdd(a.Centroid[k], b.Centroid[k]), Float32(2))]]

\* MergeClusters appending a's indices where b's belong
MergeClusters_RepeatsA(a, b) ==
    LET size == a.Size + b.Size
    IN  [Indices  |-> a.Indices \o a.Indices,
         Size     |-> size,
         Centroid |-> [k \in 1..Len(a.Centroid) |->
                         RDiv(RAdd(RMul(Float32(a.Size), a.Centroid[k]),
                                   RMul(Float32(b.Size), b.Centroid[k])),
                              Float32(size))]]

MergeClusters(a, b) ==
    LET size == a.Size + b.Size
    IN  [Indices  |-> a.Indices \o b.Indices,
         Size     |-> size,
         Centroid |-> [k \in 1..Len(a.Centroid) |->
                         RDiv(RAdd(RMul(Float32(a.Size), a.Centroid[k]),
                                   RMul(Float32(b.Size), b.Centroid[k])),
                              Float32(size))]]

RemoveClusters(cl, i, j) ==
    LET lo == IF i > j THEN j ELSE i
        hi == IF i > j THEN i ELSE j
    IN  RemoveAt(RemoveAt(cl, hi), lo)

RECURSIVE DotFrom(_, _, _)
DotFrom(a, b, k) ==
    IF k > Len(a) THEN Zero
    ELSE RAdd(RMul(a[k], b[k]), DotFrom(a, b, k + 1))

\* "panic" when the slices differ in length
DotFloat32(a, b) == IF Len(a) # Len(b) THEN "panic" ELSE DotFrom(a, b, 1)

\* WardDistance taking the numerator from a's size alone
WardDistance_SizeOfA(a, b) ==
    IF Len(b.Centroid) < Len(a.Centroid) THEN "panic"
    ELSE LET diff == [k \in 1..Len(a.Centroid) |->
                         RSub(a.Centroid[k], b.Centroid[k])]
             distanceSquared == DotFloat32(diff, diff)
             numerator == Float32(a.Size * a.Size)
             denominator == Float32(a.Size + b.Size)
         IN  RMul(RDiv(numerator, denominator), distanceSquared)

\* diff has len(a.Centroid) entries; reading b.Centroid[i] past its end panics
WardDistance(a, b) ==
    IF Len(b.Centroid) < Len(a.Centroid) THEN "panic"
    ELSE LET diff == [k \in 1..Len(a.Centroid) |->
                         RSub(a.Centroid[k], b.Centroid[k])]
             distanceSquared == DotFloat32(diff, diff)
             numerator == Float32(a.Size * b.Size)
             denominator == Float32(a.Size + b.Size)
         IN  RMul(RDiv(numerator, denominator), distanceSquared)

----------------------------------------------------------------------------
(* Distance matrix *)

ComputeInitialDistanceMatrix(cl) ==
    [i \in 1..Len(cl) |->
        [j \in 1..Len(cl) |->
            IF i = j THEN Zero
            ELSE IF j < i THEN WardDistance(cl[i], cl[j])
            ELSE WardDistance(cl[j], cl[i])]]

RemoveRowsAndColumns(matrix, i, j) ==
    LET lo == IF i > j THEN j ELSE i
        hi == IF i > j THEN i ELSE j
        cols == [r \in 1..Len(matrix) |-> RemoveAt(RemoveAt(matrix[r], hi), lo)]
    IN  RemoveAt(RemoveAt(cols, hi), lo)

\* UpdateDistanceMatrix giving the new cluster the sentinel against a survivor
\* with which one of the two removed clusters had it
UpdateDistanceMatrix_KeepsExclusion(matrix, cl, newCluster, removedIdx1, removedIdx2) ==
    LET m == RemoveRowsAndColumns(matrix, removedIdx1, removedIdx2)
        n == Len(cl)
        lo == IF removedIdx1 > removedIdx2 THEN removedIdx2 ELSE removedIdx1
        hi == IF removedIdx1 > removedIdx2 THEN removedIdx1 ELSE removedIdx2
        shifted(i) == IF i >= lo + 1 THEN i + 1 ELSE i
        old(i) == IF shifted(i) >= hi + 1 THEN shifted(i) + 1 ELSE shifted(i)
        newRow == [i \in 1..n |->
                      IF i = n THEN Zero
                      ELSE IF \/ matrix[old(i)][lo + 1] = MaxFloat32
                              \/ matrix[old(i)][hi + 1] = MaxFloat32
                           THEN MaxFloat32
                           ELSE WardDistance(cl[i], newCluster)]
    IN  [i \in 1..n |-> IF i < n THEN Append(m[i], newRow[i]) ELSE newRow]

\* UpdateDistanceMatrix appending a row and a column of zeros for the new cluster
UpdateDistanceMatrix_ZeroRow(matrix, cl, newCluster, removedIdx1, removedIdx2) ==
    LET m == RemoveRowsAndColumns(matrix, removedIdx1, removedIdx2)
        n == Len(cl)
        newRow == [i \in 1..n |-> Zero]
    IN  [i \in 1..n |-> IF i < n THEN Append(m[i], newRow[i]) ELSE newRow]

\* cl is the cluster list after the removal and the append of newCluster
UpdateDistanceMatrix(matrix, cl, newCluster, removedIdx1, removedIdx2) ==
    LET m == RemoveRowsAndColumns(matrix, removedIdx1, removedIdx2)
        n == Len(cl)
        newRow == [i \in 1..n |->
                      IF i < n THEN WardDistance(cl[i], newCluster) ELSE Zero]
    IN  [i \in 1..n |-> IF i < n THEN Append(m[i], newRow[i]) ELSE newRow]

\* the two nested loops, from position (i, j) on, with the minimum found so far
\* the scan with <= in place of <: a later pair at the same distance wins
RECURSIVE ScanFrom_LastTie(_, _, _, _)
ScanFrom_LastTie(matrix, i, j, best) ==
    IF i >= Len(matrix) THEN best
    ELSE IF j >= i THEN ScanFrom_LastTie(matrix, i + 1, 0, best)
    ELSE IF ~RLess(best.minDistance, At(At(matrix, i), j))
         THEN ScanFrom_LastTie(matrix, i, j + 1,
                  [minDistance |-> At(At(matrix, i), j), idx1 |-> i, idx2 |-> j])
         ELSE ScanFrom_LastTie(matrix, i, j + 1, best)

RECURSIVE ScanFrom(_, _, _, _)
ScanFrom(matrix, i, j, best) ==
    IF i >= Len(matrix) THEN best
    ELSE IF j >= i THEN ScanFrom(matrix, i + 1, 0, best)
    ELSE IF RLess(At(At(matrix, i), j), best.minDistance)
         THEN ScanFrom(matrix, i, j + 1,
                       [minDistance |-> At(At(matrix, i), j), idx1 |-> i, idx2 |-> j])
         ELSE ScanFrom(matrix, i, j + 1, best)

\* FindClosestClusters returning the first pair of the scan whatever its distance
FindClosestClusters_FirstPair(matrix) ==
    IF Len(matrix) > 1 THEN <<1, 0>> ELSE <<-1, -1>>

FindClosestClusters(matrix) ==
    LET r == ScanFrom(matrix, 0, 0,
                      [minDistance |-> MaxFloat32, idx1 |-> -1, idx2 |-> -1])
    IN  <<r.idx1, r.idx2>>

----------------------------------------------------------------------------
(* Cluster-count estimator *)

\* int(math.Ceil(float64(a) / float64(b))) and int(math.Floor(...)) for a >= 0, b >= 1
CeilDiv(a, b) == (a + b - 1) \div b
FloorDiv(a, b) == a \div b

\* the estimator rounding the lower cluster count down instead of up
CalculateOptimalClusters_FloorMin(items, minSz, maxSz) ==
    IF items < minSz THEN [n |-> 0, err |-> TRUE]
    ELSE LET nClustersMin == FloorDiv(items, maxSz)
             nClustersMax == FloorDiv(items, minSz)
         IN  IF nClustersMin > nClustersMax THEN [n |-> 0, err |-> TRUE]
             ELSE IF nClustersMin < nClustersMax
                  THEN [n |-> (nClustersMin + nClustersMax) \div 2, err |-> FALSE]
                  ELSE [n |-> nClustersMin, err |-> FALSE]

\* the estimator without the nClustersMin > nClustersMax check
CalculateOptimalClusters_NoRangeCheck(items, minSz, maxSz) ==
    IF items < minSz THEN [n |-> 0, err |-> TRUE]
    ELSE LET nClustersMin == CeilDiv(items, maxSz)
             nClustersMax == FloorDiv(items, minSz)
         IN  IF nClustersMin < nClustersMax
             THEN [n |-> (nClustersMin + nClustersMax) \div 2, err |-> FALSE]
             ELSE [n |-> nClustersMin, err |-> FALSE]

\* the estimator rounding the midpoint up
CalculateOptimalClusters_MidUp(items, minSz, maxSz) ==
    IF items < minSz THEN [n |-> 0, err |-> TRUE]
    ELSE LET nClustersMin == CeilDiv(items, maxSz)
             nClustersMax == FloorDiv(items, minSz)
         IN  IF nClustersMin > nClustersMax THEN [n |-> 0, err |-> TRUE]
             ELSE IF nClustersMin < nClustersMax
                  THEN [n |-> (nClustersMin + nClustersMax + 1) \div 2, err |-> FALSE]
                  ELSE [n |-> nClustersMin, err |-> FALSE]

\* the estimator also refusing the case where the two bounds coincide
CalculateOptimalClusters_StrictRange(items, minSz, maxSz) ==
    IF items < minSz THEN [n |-> 0, err |-> TRUE]
    ELSE LET nClustersMin == CeilDiv(items, maxSz)
             nClustersMax == FloorDiv(items, minSz)
         IN  IF nClustersMin >= nClustersMax THEN [n |-> 0, err |-> TRUE]
             ELSE [n |-> (nClustersMin + nClustersMax) \div 2, err |-> FALSE]

CalculateOptimalClusters(items, minSz, maxSz) ==
    IF items < minSz THEN [n |-> 0, err |-> TRUE]
    ELSE LET nClustersMin == CeilDiv(items, maxSz)
             nClustersMax == FloorDiv(items, minSz)
         IN  IF nClustersMin > nClustersMax THEN [n |-> 0, err |-> TRUE]
             ELSE IF nClustersMin < nClustersMax
                  THEN [n |-> (nClustersMin + nClustersMax) \div 2, err |-> FALSE]
                  ELSE [n |-> nClustersMin, err |-> FALSE]

----------------------------------------------------------------------------
(* One iteration of the merge loop, shared by the entry point and splitCluster *)

\* the exclusion that leaves the matrix as it was
ExcludePair_NoMark(matrix, i, j) == matrix

\* distanceMatrix[i][j] = math.MaxFloat32; distanceMatrix[j][i] = math.MaxFloat32
ExcludePair(matrix, i, j) ==
    [matrix EXCEPT ![i + 1][j + 1] = MaxFloat32, ![j + 1][i + 1] = MaxFloat32]

\* the size check letting a merge exceed maxSize by one
ExceedsMaxSize_OffByOne(cl, i, j, maxSz) == At(cl, i).Size + At(cl, j).Size > maxSz + 1

\* the size check with >= in place of >
ExceedsMaxSize_Geq(cl, i, j, maxSz) == At(cl, i).Size + At(cl, j).Size >= maxSz

ExceedsMaxSize(cl, i, j, maxSz) == At(cl, i).Size + At(cl, j).Size > maxSz

MergedList(cl, i, j) ==
    Append(RemoveClusters(cl, i, j), MergeClusters(At(cl, i), At(cl, j)))

MergedMatrix(matrix, cl, i, j) ==
    UpdateDistanceMatrix(matrix, MergedList(cl, i, j),
                         MergeClusters(At(cl, i), At(cl, j)), i, j)

----------------------------------------------------------------------------
(* splitCluster *)

RECURSIVE SubClusterLoop(_, _, _, _)
SubClusterLoop(subClusters, subDistanceMatrix, nSubClusters, maxSz) ==
    IF Len(subClusters) <= nSubClusters THEN subClusters
    ELSE LET p == FindClosestClusters(subDistanceMatrix)
             i == p[1]
             j == p[2]
         IN  IF i = -1 \/ j = -1 THEN subClusters
             ELSE IF ExceedsMaxSize(subClusters, i, j, maxSz)
                  THEN SubClusterLoop(subClusters,
                                      ExcludePair(subDistanceMatrix, i, j),
                                      nSubClusters, maxSz)
                  ELSE SubClusterLoop(MergedList(subClusters, i, j),
                                      MergedMatrix(subDistanceMatrix, subClusters, i, j),
                                      nSubClusters, maxSz)

splitCluster(cluster, emb, maxSz) ==
    LET subEmbeddings == [k \in 1..Len(cluster.Indices) |-> At(emb, cluster.Indices[k])]
        subTotalItems == Len(subEmbeddings)
        est == CalculateOptimalClusters(subTotalItems, 1, maxSz)
        subClusters == [i \in 1..subTotalItems |-> NewCluster(i - 1, subEmbeddings[i])]
    IN  IF est.err THEN [subClusters |-> Nil, success |-> FALSE]
        ELSE [subClusters |-> SubClusterLoop(subClusters,
                                             ComputeInitialDistanceMatrix(subClusters),
                                             est.n, maxSz),
              success |-> TRUE]

----------------------------------------------------------------------------
(* Post-processing of PerformClusteringWithConstraints *)

\* the pass over clusters that splits oversized ones; ok = FALSE is the
\* "Failed to split" return
RECURSIVE SplitPass(_, _, _, _, _)
SplitPass(cl, k, emb, maxSz, acc) ==
    IF k > Len(cl) THEN [final |-> acc, ok |-> TRUE]
    ELSE IF cl[k].Size > maxSz
         THEN LET r == splitCluster(cl[k], emb, maxSz)
              IN  IF ~r.success THEN [final |-> acc, ok |-> FALSE]
                  ELSE SplitPass(cl, k + 1, emb, maxSz, acc \o r.subClusters)
         ELSE SplitPass(cl, k + 1, emb, maxSz, Append(acc, cl[k]))

EmptyMap == <<>>

Refs(cluster, ids) == [k \in 1..Len(cluster.Indices) |-> At(ids, cluster.Indices[k])]

\* the conversion pass without the minSize skip
RECURSIVE BuildClusterMap_NoSkip(_, _, _, _, _, _)
BuildClusterMap_NoSkip(final, k, ids, minSz, clusterID, map) ==
    IF k > Len(final) THEN map
    ELSE BuildClusterMap_NoSkip(final, k + 1, ids, minSz, clusterID + 1,
                                map @@ (clusterID :> Refs(final[k], ids)))

\* the conversion pass counting a skipped cluster as if it had been given a key
RECURSIVE BuildClusterMap_GapIDs(_, _, _, _, _, _)
BuildClusterMap_GapIDs(final, k, ids, minSz, clusterID, map) ==
    IF k > Len(final) THEN map
    ELSE IF final[k].Size < minSz
         THEN BuildClusterMap_GapIDs(final, k + 1, ids, minSz, clusterID + 1, map)
         ELSE BuildClusterMap_GapIDs(final, k + 1, ids, minSz, clusterID + 1,
                                     map @@ (clusterID :> Refs(final[k], ids)))

\* the pass that converts clusters to the map, skipping undersized clusters
RECURSIVE BuildClusterMap(_, _, _, _, _, _)
BuildClusterMap(final, k, ids, minSz, clusterID, map) ==
    IF k > Len(final) THEN map
    ELSE IF final[k].Size < minSz
         THEN BuildClusterMap(final, k + 1, ids, minSz, clusterID, map)
         ELSE BuildClusterMap(final, k + 1, ids, minSz, clusterID + 1,
                              map @@ (clusterID :> Refs(final[k], ids)))

----------------------------------------------------------------------------
(* Inputs *)

Vectors == {<<Float32(x)>> : x \in 0..MaxCoord}

RefID(index) == <<"ref", index>>

Batches(n) == [1..n -> Vectors]

\* local variables before the call has assigned them
\* the zero value of sync.Mutex; a locked mutex holds the index of its goroutine
Unlocked == 0

\* no embedding stage is running
NoUpstream ==
    /\ mu = Unlocked
    /\ wg = 0
    /\ errChan = <<>>
    /\ netOutput = Nil
    /\ goroutines = <<>>
    /\ spawnIdx = 0

Unset ==
    /\ NoUpstream
    /\ totalItems = 0
    /\ nClusters = 0
    /\ err = FALSE
    /\ clusters = <<>>
    /\ distanceMatrix = <<>>
    /\ finalClusters = <<>>
    /\ clusterMap = Nil
    /\ success = FALSE
    /\ callArgs = Nil
    /\ ret = Nil

\* a call of PerformClusteringWithConstraints with up to MaxItems items
GeneralCall ==
    /\ embeddings \in UNION {Batches(n) : n \in 0..MaxItems}
    /\ minSize \in 1..MaxItems
    /\ maxSize \in minSize..MaxItems

\* the 10-item and 7-item scenarios (10 items, sizes 3..6; 7 items, sizes 3..3);
\* the 10 items of the first take their coordinate from ScenarioVectors
ScenarioVectors == {<<Float32(0)>>, <<Float32(1)>>}
Scenario1Call == embeddings \in [1..10 -> ScenarioVectors] /\ minSize = 3 /\ maxSize = 6
Scenario3Call == embeddings \in Batches(7) /\ minSize = 3 /\ maxSize = 3

Init ==
    /\ GeneralCall \/ Scenario1Call \/ Scenario3Call
    /\ productReferenceIDs = [i \in 1..Len(embeddings) |-> RefID(i - 1)]
    /\ Unset
    /\ pc = "start"

----------------------------------------------------------------------------
(* PerformClusteringWithConstraints *)

inputs == <<embeddings, productReferenceIDs, minSize, maxSize>>

\* the infeasible return handing back an empty map instead of nil
InfeasibleReturn_EmptyMap == [clusterMap |-> EmptyMap, success |-> FALSE]

InfeasibleReturn == [clusterMap |-> Nil, success |-> FALSE]
SplitFailureReturn == [clusterMap |-> Nil, success |-> FALSE]

\* lines 199-207: the estimator reports an error
Infeasible ==
    /\ pc = "start"
    /\ LET est == CalculateOptimalClusters(Len(embeddings), minSize, maxSize)
       IN  /\ est.err
           /\ totalItems' = Len(embeddings)
           /\ nClusters' = est.n
           /\ err' = TRUE
    /\ clusterMap' = InfeasibleReturn.clusterMap
    /\ success' = InfeasibleReturn.success
    /\ pc' = "retInfeasible"
    /\ UNCHANGED <<upstream, inputs, callArgs, ret, clusters, distanceMatrix, finalClusters>>

\* lines 199-217: estimator succeeds, one cluster per item, initial matrix
Initialize ==
    /\ pc = "start"
    /\ LET est == CalculateOptimalClusters(Len(embeddings), minSize, maxSize)
           cl == [i \in 1..Len(embeddings) |-> NewCluster(i - 1, embeddings[i])]
       IN  /\ ~est.err
           /\ totalItems' = Len(embeddings)
           /\ nClusters' = est.n
           /\ err' = FALSE
           /\ clusters' = cl
           /\ distanceMatrix' = ComputeInitialDistanceMatrix(cl)
    /\ pc' = "loop"
    /\ UNCHANGED <<upstream, inputs, callArgs, ret, finalClusters, clusterMap, success>>

\* line 220: loop condition false
LoopDone ==
    /\ pc = "loop"
    /\ ~(Len(clusters) > nClusters)
    /\ pc' = "assemble"
    /\ UNCHANGED <<upstream, inputs, callArgs, ret, totalItems, nClusters, err, clusters, distanceMatrix,
                   finalClusters, clusterMap, success>>

\* the loop breaking as soon as the closest pair is too large to merge
LoopStall_OnOversize ==
    /\ pc = "loop"
    /\ Len(clusters) > nClusters
    /\ LET p == FindClosestClusters(distanceMatrix)
       IN  \/ p[1] = -1 \/ p[2] = -1
           \/ ExceedsMaxSize(clusters, p[1], p[2], maxSize)
    /\ pc' = "assemble"
    /\ UNCHANGED <<upstream, inputs, callArgs, ret, totalItems, nClusters, err, clusters, distanceMatrix,
                   finalClusters, clusterMap, success>>

\* lines 221-225: no pair found, break
LoopStall ==
    /\ pc = "loop"
    /\ Len(clusters) > nClusters
    /\ LET p == FindClosestClusters(distanceMatrix)
       IN  p[1] = -1 \/ p[2] = -1
    /\ pc' = "assemble"
    /\ UNCHANGED <<upstream, inputs, callArgs, ret, totalItems, nClusters, err, clusters, distanceMatrix,
                   finalClusters, clusterMap, success>>

\* lines 228-234: the closest pair would exceed maxSize
LoopExclude ==
    /\ pc = "loop"
    /\ Len(clusters) > nClusters
    /\ LET p == FindClosestClusters(distanceMatrix)
       IN  /\ p[1] # -1 /\ p[2] # -1
           /\ ExceedsMaxSize(clusters, p[1], p[2], maxSize)
           /\ distanceMatrix' = ExcludePair(distanceMatrix, p[1], p[2])
    /\ UNCHANGED <<upstream, inputs, callArgs, ret, totalItems, nClusters, err, clusters,
                   finalClusters, clusterMap, success, pc>>

\* the merge writing the merged centroid back into the caller's vector of the
\* first member of the first cluster
LoopMerge_InPlace ==
    /\ pc = "loop"
    /\ Len(clusters) > nClusters
    /\ LET p == FindClosestClusters(distanceMatrix)
       IN  /\ p[1] # -1 /\ p[2] # -1
           /\ ~ExceedsMaxSize(clusters, p[1], p[2], maxSize)
           /\ clusters' = MergedList(clusters, p[1], p[2])
           /\ distanceMatrix' = MergedMatrix(distanceMatrix, clusters, p[1], p[2])
           /\ embeddings' =
                 [embeddings EXCEPT ![At(clusters, p[1]).Indices[1] + 1] =
                     MergeClusters(At(clusters, p[1]), At(clusters, p[2])).Centroid]
    /\ UNCHANGED <<upstream, productReferenceIDs, minSize, maxSize, callArgs, ret, totalItems,
                   nClusters, err, finalClusters, clusterMap, success, pc>>

\* lines 236-245: merge the closest pair
LoopMerge ==
    /\ pc = "loop"
    /\ Len(clusters) > nClusters
    /\ LET p == FindClosestClusters(distanceMatrix)
       IN  /\ p[1] # -1 /\ p[2] # -1
           /\ ~ExceedsMaxSize(clusters, p[1], p[2], maxSize)
           /\ clusters' = MergedList(clusters, p[1], p[2])
           /\ distanceMatrix' = MergedMatrix(distanceMatrix, clusters, p[1], p[2])
    /\ UNCHANGED <<upstream, inputs, callArgs, ret, totalItems, nClusters, err,
                   finalClusters, clusterMap, success, pc>>

\* lines 248-284: split oversized clusters, build the map, return
Assemble ==
    /\ pc = "assemble"
    /\ LET sp == SplitPass(clusters, 1, embeddings, maxSize, <<>>)
       IN  IF ~sp.ok
           THEN /\ finalClusters' = sp.final
                /\ clusterMap' = SplitFailureReturn.clusterMap
                /\ success' = SplitFailureReturn.success
                /\ pc' = "retSplitFailed"
           ELSE /\ finalClusters' = sp.final
                /\ clusterMap' = BuildClusterMap(sp.final, 1, productReferenceIDs,
                                                 minSize, 0, EmptyMap)
                /\ success' = TRUE
                /\ pc' = "retOK"
    /\ UNCHANGED <<upstream, inputs, callArgs, ret, totalItems, nClusters, err, clusters, distanceMatrix>>

Next ==
    \/ Infeasible
    \/ Initialize
    \/ LoopDone
    \/ LoopStall
    \/ LoopExclude
    \/ LoopMerge
    \/ Assemble

Spec == Init /\ [][Next]_vars

Returned == pc \in {"retInfeasible", "retSplitFailed", "retOK"}

----------------------------------------------------------------------------
(* CalculateOptimalClusters called on its own *)

EstInit ==
    /\ NoUpstream
    /\ totalItems \in 0..EstMaxItems
    /\ minSize \in 1..EstMaxSize
    /\ maxSize \in minSize..EstMaxSize
    /\ embeddings = <<>>
    /\ productReferenceIDs = <<>>
    /\ nClusters = 0
    /\ err = FALSE
    /\ clusters = <<>>
    /\ distanceMatrix = <<>>
    /\ finalClusters = <<>>
    /\ clusterMap = Nil
    /\ success = FALSE
    /\ callArgs = Nil
    /\ ret = Nil
    /\ pc = "estimate"

Estimate ==
    /\ pc = "estimate"
    /\ LET est == CalculateOptimalClusters(totalItems, minSize, maxSize)
       IN  nClusters' = est.n /\ err' = est.err
    /\ pc' = "estimated"
    /\ UNCHANGED <<upstream, inputs, callArgs, ret, totalItems, clusters, distanceMatrix, finalClusters,
                   clusterMap, success>>

EstNext == Estimate

SpecEstimator == EstInit /\ [][EstNext]_vars

----------------------------------------------------------------------------
(* WardDistance called on its own *)

\* centroids of 1..WardMaxDim whole coordinates
WardCentroids ==
    UNION {[1..d -> {Float32(x) : x \in 0..MaxCoord}] : d \in 1..WardMaxDim}

\* clusters of 1..WardMaxSize members; WardDistance reads Size and Centroid only
WardClusters ==
    {[Indices |-> [k \in 1..sz |-> k - 1], Size |-> sz, Centroid |-> c] :
        sz \in 1..WardMaxSize, c \in WardCentroids}

WardInit ==
    /\ NoUpstream
    /\ callArgs \in [a : WardClusters, b : WardClusters]
    /\ ret = Nil
    /\ embeddings = <<>>
    /\ productReferenceIDs = <<>>
    /\ minSize = 0
    /\ maxSize = 0
    /\ totalItems = 0
    /\ nClusters = 0
    /\ err = FALSE
    /\ clusters = <<>>
    /\ distanceMatrix = <<>>
    /\ finalClusters = <<>>
    /\ clusterMap = Nil
    /\ success = FALSE
    /\ pc = "ward"

\* lines 136-145: the call either panics or returns a distance
Ward ==
    /\ pc = "ward"
    /\ ret' = WardDistance(callArgs.a, callArgs.b)
    /\ pc' = "wardDone"
    /\ UNCHANGED <<upstream, inputs, callArgs, totalItems, nClusters, err, clusters, distanceMatrix,
                   finalClusters, clusterMap, success>>

WardNext == Ward

SpecWard == WardInit /\ [][WardNext]_vars

----------------------------------------------------------------------------
(* splitCluster called on its own *)

RECURSIVE Ascending(_)
Ascending(S) ==
    IF S = {} THEN <<>>
    ELSE LET m == CHOOSE x \in S : \A y \in S : x <= y
         IN  <<m>> \o Ascending(S \ {m})

Reversed(s) == [k \in 1..Len(s) |-> s[Len(s) + 1 - k]]

\* the cluster that merging the single-item clusters of indices[1..k], one
\* after the other, produces
RECURSIVE ClusterOf(_, _, _)
ClusterOf(indices, emb, k) ==
    IF k = 1 THEN NewCluster(indices[1], At(emb, indices[1]))
    ELSE MergeClusters(ClusterOf(indices, emb, k - 1),
                       NewCluster(indices[k], At(emb, indices[k])))

\* clusters over a batch: any non-empty set of its items, in ascending or
\* descending order of index
SplitClusters(emb) ==
    {ClusterOf(s, emb, Len(s)) :
        s \in UNION {{Ascending(S), Reversed(Ascending(S))} :
                        S \in (SUBSET (0..Len(emb) - 1)) \ {{}}}}

\* batches of n one-coordinate vectors whose whole coordinates start at 0 and
\* go up by 0 or 1 from one item to the next
RECURSIVE SplitBatches(_)
SplitBatches(n) ==
    IF n = 1 THEN {<<<<Float32(0)>>>>}
    ELSE {Append(b, <<Float32(b[n - 1][1][1] + d)>>) :
             b \in SplitBatches(n - 1), d \in {0, 1}}

SplitInit ==
    /\ NoUpstream
    /\ embeddings \in SplitBatches(SplitMaxItems)
    /\ productReferenceIDs = [k \in 1..SplitMaxItems |-> RefID(k - 1)]
    /\ callArgs \in [cluster : SplitClusters(embeddings)]
    /\ maxSize \in 1..SplitMaxSize
    /\ ret = Nil
    /\ minSize = 0
    /\ totalItems = 0
    /\ nClusters = 0
    /\ err = FALSE
    /\ clusters = <<>>
    /\ distanceMatrix = <<>>
    /\ finalClusters = <<>>
    /\ clusterMap = Nil
    /\ success = FALSE
    /\ pc = "split"

\* lines 295-349
Split ==
    /\ pc = "split"
    /\ ret' = splitCluster(callArgs.cluster, embeddings, maxSize)
    /\ pc' = "splitDone"
    /\ UNCHANGED <<upstream, inputs, callArgs, totalItems, nClusters, err, clusters, distanceMatrix,
                   finalClusters, clusterMap, success>>

SplitNext == Split

SpecSplit == SplitInit /\ [][SplitNext]_vars

----------------------------------------------------------------------------
(* Properties of the returned mapping *)

\* the item IDs placed in the returned map, as (cluster ID, position) slots
Slots == UNION {{<<k, p>> : p \in 1..Len(clusterMap[k])} : k \in DOMAIN clusterMap}

MappedIDs == {clusterMap[sl[1]][sl[2]] : sl \in Slots}

InputIDs == {productReferenceIDs[i] : i \in 1..Len(productReferenceIDs)}

\* C1: on success every input item ID appears in some cluster of the returned
\* map (no omissions).
C1_NoOmissions == pc = "retOK" => InputIDs \subseteq MappedIDs

\* C2: on success no item ID occupies two slots of the returned map, be it in
\* two clusters or twice in one cluster's list (no duplication).
C2_NoDuplication ==
    pc = "retOK" =>
        \A s1 \in Slots : \A s2 \in Slots :
            clusterMap[s1[1]][s1[2]] = clusterMap[s2[1]][s2[2]] => s1 = s2

C2_Witness ==
    /\ pc = "retOK"
    /\ Cardinality(DOMAIN clusterMap) >= 2
    /\ \E k \in DOMAIN clusterMap : Len(clusterMap[k]) >= 3

\* C3: on success every cluster of the returned map has between minSize and
\* maxSize items.
C3_SizeCompliance ==
    pc = "retOK" =>
        \A k \in DOMAIN clusterMap :
            minSize <= Len(clusterMap[k]) /\ Len(clusterMap[k]) <= maxSize

\* a successful run that skipped an undersized cluster and returned another
C3_Witness ==
    /\ pc = "retOK"
    /\ DOMAIN clusterMap # {}
    /\ \E k \in 1..Len(finalClusters) : finalClusters[k].Size < minSize

\* C4: a run whose final cluster list holds a cluster smaller than minSize or
\* larger than maxSize does not return success.
C4_ViolationFails ==
    (/\ Returned
     /\ \E k \in 1..Len(finalClusters) :
            finalClusters[k].Size < minSize \/ finalClusters[k].Size > maxSize)
    => success = FALSE

Result == [clusterMap |-> clusterMap, success |-> success]

----------------------------------------------------------------------------
(* Properties of the estimator *)

\* C6: when the estimator returns no error, K lies between ceil(n/maxSize)
\* and floor(n/minSize): K * maxSize covers n and K * minSize fits in n.
C6_EstimatorBounds ==
    (pc = "estimated" /\ ~err) =>
        /\ nClusters * maxSize >= totalItems
        /\ nClusters * minSize <= totalItems

C6_Witness ==
    /\ pc = "estimated" /\ ~err
    /\ nClusters * maxSize > totalItems
    /\ (nClusters + 1) * minSize <= totalItems

\* kMin = ceil(n/maxSize) and kMax = floor(n/minSize), by their defining bounds
IsCeil(k, n, d) == k * d >= n /\ (k - 1) * d < n
IsFloor(k, n, d) == k * d <= n /\ (k + 1) * d > n

\* C7: the estimator fails exactly when n < minSize or ceil(n/maxSize) >
\* floor(n/minSize), and the entry point then returns failure with no cluster
\* created and no matrix built.
C7_Infeasibility ==
    /\ pc # "start" =>
           (err <=> \/ totalItems < minSize
                    \/ \E kMin \in 0..totalItems : \E kMax \in 0..totalItems :
                          /\ IsCeil(kMin, totalItems, maxSize)
                          /\ IsFloor(kMax, totalItems, minSize)
                          /\ kMin > kMax)
    /\ pc # "start" /\ err =>
           /\ pc = "retInfeasible"
           /\ success = FALSE /\ clusterMap = Nil
           /\ clusters = <<>> /\ distanceMatrix = <<>> /\ finalClusters = <<>>
    /\ pc = "retInfeasible" => err

\* the 5-item and 7-item cases with both sizes 3, failing on kMin > kMax
C7_Witness ==
    /\ pc = "retInfeasible"
    /\ totalItems \in {5, 7} /\ minSize = 3 /\ maxSize = 3

\* C8: for feasible inputs K is kMin when kMin = kMax and otherwise the
\* midpoint (kMin + kMax) / 2 rounded down.
C8_EstimatorValue ==
    (pc = "estimated" /\ ~err) =>
        \A kMin \in 0..totalItems : \A kMax \in 0..totalItems :
            (IsCeil(kMin, totalItems, maxSize) /\ IsFloor(kMax, totalItems, minSize)) =>
                IF kMin = kMax THEN nClusters = kMin
                ELSE 2 * nClusters <= kMin + kMax /\ kMin + kMax < 2 * nClusters + 2

\* a feasible input whose kMin + kMax is odd, so that the rounding shows
C8_Witness ==
    /\ pc = "estimated" /\ ~err
    /\ \E kMin \in 0..totalItems : \E kMax \in 0..totalItems :
          /\ IsCeil(kMin, totalItems, maxSize)
          /\ IsFloor(kMax, totalItems, minSize)
          /\ kMin + kMax = 2 * nClusters + 1

----------------------------------------------------------------------------
(* Scenarios *)

MapSizes == {Len(clusterMap[k]) : k \in DOMAIN clusterMap}

HasExcludedPair ==
    \E i \in 1..Len(distanceMatrix) : \E j \in 1..Len(distanceMatrix) :
        distanceMatrix[i][j] = MaxFloat32

ScenarioOne == Len(embeddings) = 10 /\ minSize = 3 /\ maxSize = 6

\* C9: 10 items with minSize 3 and maxSize 6: the run does not fail, the loop
\* is left with exactly 2 clusters (no stall), and the returned map has the
\* keys 0 and 1 with list lengths in 3..6 that add up to 10.
C9_ScenarioOne ==
    ScenarioOne =>
        /\ pc \notin {"retInfeasible", "retSplitFailed"}
        /\ pc \in {"assemble", "retOK"} => Len(clusters) = 2
        /\ pc = "retOK" =>
              /\ success
              /\ DOMAIN clusterMap = {0, 1}
              /\ Len(clusterMap[0]) + Len(clusterMap[1]) = 10
              /\ MapSizes \subseteq 3..6

\* a 10-item run that returned one cluster of 4 and one of 6 items
C9_Witness ==
    /\ ScenarioOne /\ pc = "retOK"
    /\ MapSizes = {4, 6}

ScenarioTwo == Len(embeddings) = 6 /\ minSize = 6 /\ maxSize = 6

\* C10: 6 items with minSize = maxSize = 6: no pair is ever excluded, the run
\* does not fail, and the returned map has the single key 0 whose list holds
\* all 6 item IDs.
C10_ScenarioTwo ==
    ScenarioTwo =>
        /\ ~HasExcludedPair
        /\ pc \notin {"retInfeasible", "retSplitFailed"}
        /\ pc \in {"assemble", "retOK"} => Len(clusters) = 1
        /\ pc = "retOK" =>
              /\ success
              /\ DOMAIN clusterMap = {0}
              /\ Len(clusterMap[0]) = 6
              /\ MappedIDs = InputIDs

C10_Witness ==
    /\ ScenarioTwo /\ pc = "retOK"
    /\ \E i \in 1..6 : \E j \in 1..6 : embeddings[i] # embeddings[j]

----------------------------------------------------------------------------
(* Order in which FindClosestClusters resolves ties *)

\* the unordered pairs of live clusters, written <<p, q>> with p < q
LivePairs == {pq \in (0..Len(clusters) - 1) \X (0..Len(clusters) - 1) : pq[1] < pq[2]}

\* the pair the merge loop is about to act on, written <<p, q>> with p < q
ChosenPair ==
    LET r == FindClosestClusters(distanceMatrix)
    IN  IF r[1] < r[2] THEN <<r[1], r[2]>> ELSE <<r[2], r[1]>>

PairDistance(pq) == At(At(distanceMatrix, pq[2]), pq[1])

\* the non-excluded pairs at the minimum distance
ClosestPairs ==
    {pq \in LivePairs :
        /\ PairDistance(pq) # MaxFloat32
        /\ \A other \in LivePairs : ~RLess(PairDistance(other), PairDistance(pq))}

\* row-major order of the upper triangle: smaller p first, then smaller q
UpperBefore(x, y) == x[1] < y[1] \/ (x[1] = y[1] /\ x[2] <= y[2])

\* row-major order of the lower triangle: smaller q first, then smaller p
LowerBefore(x, y) == x[2] < y[2] \/ (x[2] = y[2] /\ x[1] <= y[1])

InLoopBody == pc = "loop" /\ Len(clusters) > nClusters

\* C14 as stated: among the non-excluded pairs at the minimum distance the
\* loop acts on the pair {p,q}, p<q, with the smallest p and then the smallest q.
C14_UpperTriangleTieBreak ==
    (InLoopBody /\ ClosestPairs # {}) =>
        /\ ChosenPair \in ClosestPairs
        /\ \A pq \in ClosestPairs : UpperBefore(ChosenPair, pq)

\* C14 amended: among the non-excluded pairs at the minimum distance the loop
\* acts on the pair {p,q}, p<q, with the smallest q and then the smallest p
\* (the first one met when rows i are scanned in ascending order and, within a
\* row, columns j < i in ascending order), and it finds no pair exactly when
\* every pair is excluded.
C14_LowerTriangleTieBreak ==
    InLoopBody =>
        /\ ClosestPairs # {} =>
              /\ ChosenPair \in ClosestPairs
              /\ FindClosestClusters(distanceMatrix) = <<ChosenPair[2], ChosenPair[1]>>
              /\ \A pq \in ClosestPairs : LowerBefore(ChosenPair, pq)
        /\ ClosestPairs = {} => FindClosestClusters(distanceMatrix) = <<-1, -1>>

\* the loop is about to act while several pairs tie at the minimum and the two
\* scan orders disagree on which of them comes first
C14_Witness ==
    /\ InLoopBody
    /\ Cardinality(ClosestPairs) > 1
    /\ \E pq \in ClosestPairs : pq # ChosenPair /\ UpperBefore(pq, ChosenPair)

----------------------------------------------------------------------------
(* Centroids *)

\* sum of component k of the original vectors of the items indices[p..]
RECURSIVE MemberSum(_, _, _)
MemberSum(indices, k, p) ==
    IF p > Len(indices) THEN Zero
    ELSE RAdd(At(embeddings, indices[p])[k], MemberSum(indices, k, p + 1))

\* mean of the original vectors of a cluster's members
MemberMean(c) ==
    [k \in 1..Len(c.Centroid) |-> RDiv(MemberSum(c.Indices, k, 1), Float32(Len(c.Indices)))]

\* the merge formula, cross-multiplied:
\* (a.Size + b.Size) * m.Centroid = a.Size * a.Centroid + b.Size * b.Centroid
MergeFormula(a, b, m) ==
    /\ m.Size = a.Size + b.Size
    /\ Len(m.Centroid) = Len(a.Centroid)
    /\ \A k \in 1..Len(m.Centroid) :
          RMul(Float32(a.Size + b.Size), m.Centroid[k])
              = RAdd(RMul(Float32(a.Size), a.Centroid[k]),
                     RMul(Float32(b.Size), b.Centroid[k]))

\* C16: MergeClusters(A,B) of any two live clusters has size A.Size+B.Size and
\* centroid (A.Size*A.Centroid + B.Size*B.Centroid)/(A.Size+B.Size), and after
\* any sequence of merges every live cluster's size is its number of members
\* and its centroid is the mean of its members' original vectors.
C16_CentroidCorrectness ==
    /\ \A i \in 1..Len(clusters) : \A j \in 1..Len(clusters) :
          i # j => MergeFormula(clusters[i], clusters[j],
                                MergeClusters(clusters[i], clusters[j]))
    /\ \A i \in 1..Len(clusters) :
          /\ clusters[i].Size = Len(clusters[i].Indices)
          /\ clusters[i].Centroid = MemberMean(clusters[i])

\* a live cluster built by two merges, the second of clusters of unequal size
\* and unequal centroid (its centroid is a proper third)
C16_Witness ==
    \E i \in 1..Len(clusters) :
        /\ clusters[i].Size = 3
        /\ clusters[i].Centroid[1][2] = 3

----------------------------------------------------------------------------
(* Keys and member order of the returned map *)

IsOutputCluster(c) == c.Size >= minSize

\* the clusters of the final list that are given a key, in list order
OutputClusters == SelectSeq(finalClusters, IsOutputCluster)

\* C17: on success the keys of the returned map are exactly 0..m-1 for the m
\* output clusters, key k belongs to the k-th output cluster in the order of
\* the final cluster list, and its list holds the item IDs of that cluster's
\* member indices in the cluster's member order.
C17_KeysAndMemberOrder ==
    pc = "retOK" =>
        /\ DOMAIN clusterMap = 0..Len(OutputClusters) - 1
        /\ \A k \in DOMAIN clusterMap :
              /\ Len(clusterMap[k]) = Len(At(OutputClusters, k).Indices)
              /\ \A p \in 1..Len(clusterMap[k]) :
                    clusterMap[k][p] = At(productReferenceIDs, At(OutputClusters, k).Indices[p])

\* a successful run whose final list starts with a cluster that gets no key,
\* so that key 0 goes to a later cluster, one with several members
C17_Witness ==
    /\ pc = "retOK"
    /\ Len(finalClusters) > 1
    /\ ~IsOutputCluster(finalClusters[1])
    /\ 0 \in DOMAIN clusterMap
    /\ Len(clusterMap[0]) > 1

----------------------------------------------------------------------------
(* Size ceiling in the merge loop *)

\* C20: in every state reached by the merge loop every live cluster has
\* size <= maxSize, so no pair whose combined size exceeds maxSize was merged.
C20_SizeCeiling ==
    pc \in {"loop", "assemble", "retSplitFailed", "retOK"} =>
        \A i \in 1..Len(clusters) : clusters[i].Size <= maxSize

\* the loop goes on after refusing a pair, next to a merged cluster that has
\* reached maxSize
C20_Witness ==
    /\ InLoopBody
    /\ HasExcludedPair
    /\ \E i \in 1..Len(clusters) : clusters[i].Size = maxSize /\ clusters[i].Size > 1

----------------------------------------------------------------------------
(* Frame of a run *)

----------------------------------------------------------------------------
(* Properties of WardDistance *)

EqualDimension == Len(callArgs.a.Centroid) = Len(callArgs.b.Centroid)

\* C15: for clusters A and B with centroids of equal dimension
\* WardDistance(A,B) is a value equal to WardDistance(B,A), and it is 0 when
\* A and B are the same cluster.
C15_WardSymmetricZero ==
    (pc = "wardDone" /\ EqualDimension) =>
        /\ ret # "panic"
        /\ ret = WardDistance(callArgs.b, callArgs.a)
        /\ callArgs.a = callArgs.b => ret = Zero

\* a call on two clusters of the same dimension, different sizes and different
\* centroids, which returned a non-zero distance
C15_Witness ==
    /\ pc = "wardDone" /\ EqualDimension
    /\ callArgs.a.Size # callArgs.b.Size
    /\ callArgs.a.Centroid # callArgs.b.Centroid
    /\ ret # "panic"
    /\ ret # Zero

\* C19: WardDistance on two clusters whose centroids differ in length,
\* whichever is the longer, stops with a failure and returns no distance.
C19_MismatchFailsFast ==
    (pc = "wardDone" /\ ~EqualDimension) => ret = "panic"

----------------------------------------------------------------------------
(* Properties of splitCluster *)

\* the member slots of the returned sub-clusters
SubSlots ==
    UNION {{<<k, p>> : p \in 1..Len(ret.subClusters[k].Indices)} :
              k \in 1..Len(ret.subClusters)}

SubMember(slot) == ret.subClusters[slot[1]].Indices[slot[2]]

ParentIndices == {callArgs.cluster.Indices[p] : p \in 1..Len(callArgs.cluster.Indices)}

Oversized == callArgs.cluster.Size > maxSize

\* C12: for a cluster of size > maxSize, whatever item indices it holds, the
\* members of the sub-clusters splitCluster returns are together exactly the
\* cluster's item indices, each index in exactly one sub-cluster.
C12_SplitReconstitutes ==
    (pc = "splitDone" /\ Oversized) =>
        /\ ret.success
        /\ {SubMember(slot) : slot \in SubSlots} = ParentIndices
        /\ \A s \in SubSlots : \A t \in SubSlots : SubMember(s) = SubMember(t) => s = t

\* C13: for maxSize >= 1 every sub-cluster splitCluster returns has
\* size <= maxSize.
C13_SplitSizeBound ==
    pc = "splitDone" =>
        /\ ret.success
        /\ \A k \in 1..Len(ret.subClusters) :
              /\ ret.subClusters[k].Size <= maxSize
              /\ Len(ret.subClusters[k].Indices) <= maxSize

\* a split that returned a sub-cluster of maxSize members next to a single
\* item lying exactly on its centroid, and another sub-cluster merged from two
\* different vectors: that merge at a positive distance was made while the
\* first pair stood at distance 0, kept apart by the size check alone
C13_Witness ==
    /\ pc = "splitDone" /\ Oversized
    /\ \E k \in 1..Len(ret.subClusters) : \E l \in 1..Len(ret.subClusters) :
          /\ ret.subClusters[k].Size = maxSize
          /\ ret.subClusters[k].Size > 1
          /\ ret.subClusters[l].Size = 1
          /\ ret.subClusters[l].Centroid = ret.subClusters[k].Centroid
    /\ \E m \in 1..Len(ret.subClusters) :
          /\ ret.subClusters[m].Size > 1
          /\ ret.subClusters[m].Centroid[1][2] > 1

----------------------------------------------------------------------------
(* The pair the loop selects *)

Entry(p, q) == At(At(distanceMatrix, p), q)

Positions == 0..Len(clusters) - 1

Selected == FindClosestClusters(distanceMatrix)

PairSelected == InLoopBody /\ Selected # <<-1, -1>>

\* C21: each time the loop selects a pair, the two positions are distinct live
\* clusters, the pair's entry is not the excluded sentinel, and no entry
\* between two distinct live clusters that is not the sentinel is smaller.
C21_ClosestPair ==
    PairSelected =>
        \A sel \in {Selected} :
            /\ sel[1] \in Positions /\ sel[2] \in Positions
            /\ sel[1] # sel[2]
            /\ Entry(sel[1], sel[2]) # MaxFloat32
            /\ \A p \in Positions : \A q \in Positions :
                  (p # q /\ Entry(p, q) # MaxFloat32)
                      => ~RLess(Entry(p, q), Entry(sel[1], sel[2]))

\* a selection made while one pair is excluded and another, not excluded,
\* lies farther apart than the selected one
C21_Witness ==
    /\ PairSelected
    /\ HasExcludedPair
    /\ \E sel \in {Selected} : \E p \in Positions : \E q \in Positions :
          /\ p # q /\ Entry(p, q) # MaxFloat32
          /\ RLess(Entry(sel[1], sel[2]), Entry(p, q))

----------------------------------------------------------------------------
(* Shape and content of the distance matrix *)

\* matrix is square of the dimension of cl, symmetric, zero on the diagonal,
\* and off the diagonal holds the sentinel or the Ward distance of the two
\* clusters at those positions of cl
MatrixMatches(matrix, cl) ==
    /\ Len(matrix) = Len(cl)
    /\ \A p \in 1..Len(matrix) : Len(matrix[p]) = Len(cl)
    /\ \A p \in 1..Len(cl) :
          /\ matrix[p][p] = Zero
          /\ \A q \in 1..p - 1 :
                /\ matrix[p][q] = matrix[q][p]
                /\ \/ matrix[p][q] = MaxFloat32
                   \/ matrix[p][q] = WardDistance(cl[p], cl[q])

\* C22: at the start of every loop iteration the matrix is square with the
\* dimension of the live cluster list, symmetric, zero on the diagonal and
\* holds off the diagonal the sentinel or the Ward distance of the clusters at
\* the two positions; and, for lists of up to ProbeMaxClusters clusters,
\* merging any two positions i, j of such a state, given in either order,
\* yields a list and a matrix for which the same holds.
C22_MatrixInvariant ==
    pc = "loop" =>
        /\ MatrixMatches(distanceMatrix, clusters)
        /\ Len(clusters) <= ProbeMaxClusters =>
              \A i \in Positions : \A j \in Positions :
                  i # j => \A m \in {MergedMatrix(distanceMatrix, clusters, i, j)} :
                           \A cl \in {MergedList(clusters, i, j)} : MatrixMatches(m, cl)

\* an iteration that starts after a merge and an exclusion, with three or more
\* live clusters and a pair at a positive distance
C22_Witness ==
    /\ InLoopBody
    /\ Len(clusters) > 2
    /\ HasExcludedPair
    /\ \E p \in Positions : At(clusters, p).Size > 1
    /\ \E p \in Positions : \E q \in Positions :
          p # q /\ Entry(p, q) # MaxFloat32 /\ Entry(p, q) # Zero

----------------------------------------------------------------------------
(* Effect of a merge on the matrix *)

MergeStep == pc = "loop" /\ Len(clusters') = Len(clusters) - 1

\* position, after the removal of positions i and j, of the survivor that was
\* at position p
NewPosition(p, i, j) ==
    p - (IF p > i THEN 1 ELSE 0) - (IF p > j THEN 1 ELSE 0)

Survivors(i, j) == Positions \ {i, j}

\* C23: a merge of positions i and j leaves every survivor in the list, puts
\* the merged cluster last, gives every entry between the merged cluster and
\* a survivor the Ward distance of the two, never the sentinel, and leaves
\* every entry between two survivors, the sentinel included, as it was.
C23_MergeStepEffect ==
    [][MergeStep =>
        \A sel \in {Selected} :
            /\ clusters'[Len(clusters')] = MergeClusters(At(clusters, sel[1]), At(clusters, sel[2]))
            /\ \A p \in Survivors(sel[1], sel[2]) :
                  /\ At(clusters', NewPosition(p, sel[1], sel[2])) = At(clusters, p)
                  /\ At(At(distanceMatrix', Len(clusters') - 1), NewPosition(p, sel[1], sel[2]))
                        = WardDistance(At(clusters, p), clusters'[Len(clusters')])
                  /\ At(At(distanceMatrix', Len(clusters') - 1), NewPosition(p, sel[1], sel[2]))
                        # MaxFloat32
                  /\ At(At(distanceMatrix', NewPosition(p, sel[1], sel[2])), Len(clusters') - 1)
                        = At(At(distanceMatrix', Len(clusters') - 1), NewPosition(p, sel[1], sel[2]))
                  /\ \A q \in Survivors(sel[1], sel[2]) :
                        At(At(distanceMatrix', NewPosition(p, sel[1], sel[2])),
                           NewPosition(q, sel[1], sel[2])) = Entry(p, q)
    ]_vars

LastPosition == Len(clusters) - 1

\* the state a merge leaves when it brings the list down to K clusters (no
\* exclusion can follow it): two survivors still hold the sentinel set before
\* the merge, and the merged cluster, placed last, holds it with no one
C23_Witness ==
    /\ pc = "loop"
    /\ Len(clusters) = nClusters
    /\ Len(clusters) > 2
    /\ At(clusters, LastPosition).Size > 1
    /\ \E p \in Positions \ {LastPosition} : \E q \in Positions \ {LastPosition} :
          p # q /\ Entry(p, q) = MaxFloat32
    /\ \A r \in Positions \ {LastPosition} : Entry(LastPosition, r) # MaxFloat32

----------------------------------------------------------------------------
(* Members of the live clusters *)

\* the member slots of the live clusters: <<position of the cluster, place in
\* its member list>>
LiveSlots ==
    UNION {{<<k, p>> : p \in 1..Len(clusters[k].Indices)} : k \in 1..Len(clusters)}

LiveMember(slot) == clusters[slot[1]].Indices[slot[2]]

InMergeLoop == pc \in {"loop", "assemble"}

\* C24: in every state of the merge loop each live cluster has at least one
\* member and a Size equal to its number of members, no item index occurs
\* twice among the live clusters, and together they hold exactly 0..n-1.
C24_Partition ==
    InMergeLoop =>
        /\ \A k \in 1..Len(clusters) :
              /\ Len(clusters[k].Indices) >= 1
              /\ clusters[k].Size = Len(clusters[k].Indices)
        /\ \A s \in LiveSlots : \A t \in LiveSlots :
              LiveMember(s) = LiveMember(t) => s = t
        /\ {LiveMember(s) : s \in LiveSlots} = 0..Len(embeddings) - 1

\* the loop goes on with a cluster grown by two merges next to a single item
C24_Witness ==
    /\ InLoopBody
    /\ \E k \in 1..Len(clusters) : clusters[k].Size > 2
    /\ \E k \in 1..Len(clusters) : clusters[k].Size = 1

----------------------------------------------------------------------------
(* Exit of the merge loop *)

AllPairsExcluded ==
    \A p \in Positions : \A q \in Positions : p # q => Entry(p, q) = MaxFloat32

Stalled == Len(clusters) > nClusters /\ AllPairsExcluded

\* the live count is never below K in the loop, and after the loop it is K
\* or the loop has stalled
CountWithinLoop ==
    /\ pc = "loop" => Len(clusters) >= nClusters
    /\ pc \in {"assemble", "retSplitFailed", "retOK"} =>
          Len(clusters) = nClusters \/ Stalled

\* the count starts at n, a step inside the loop takes exactly one cluster
\* away or none, the exit keeps list and matrix, and a stalled list is handed
\* on as it is
CountSteps ==
    /\ (pc = "start" /\ pc' = "loop") =>
          Len(clusters') = Len(embeddings) /\ Len(clusters') >= nClusters'
    /\ (pc = "loop" /\ pc' = "loop") =>
          /\ nClusters' = nClusters
          /\ \/ Len(clusters') = Len(clusters) - 1
             \/ clusters' = clusters
    /\ (pc = "loop" /\ pc' = "assemble") =>
          clusters' = clusters /\ distanceMatrix' = distanceMatrix
    /\ (pc = "assemble" /\ Stalled) => finalClusters' = clusters

\* C25: the live cluster count starts at n >= K, goes down by exactly one per
\* merge and never below K; when the loop exits the count is K, or it is above
\* K with every pair of distinct live clusters excluded, and then the remaining
\* clusters are passed on unchanged.
C25_LoopExit == [](CountWithinLoop) /\ [][CountSteps]_vars

\* the loop has exited stalled, above K, after at least one merge
C25_Witness ==
    /\ pc = "assemble"
    /\ Stalled
    /\ Len(clusters) < Len(embeddings)

----------------------------------------------------------------------------
(* The estimator call of splitCluster *)

\* C26: for every subN >= 1 and maxSize >= 1 the call
\* CalculateOptimalClusters(subN, 1, maxSize) returns no error, and a call of
\* splitCluster on a cluster of one or more items with maxSize >= 1 does not
\* return failure.
C26_SplitEstimatorFeasible ==
    /\ \A subN \in 1..EstMaxItems : \A maxSz \in 1..EstMaxSize :
          ~CalculateOptimalClusters(subN, 1, maxSz).err
    /\ pc = "splitDone" =>
          /\ ~CalculateOptimalClusters(Len(callArgs.cluster.Indices), 1, maxSize).err
          /\ ret.success
          /\ Len(ret.subClusters) >= 1

\* a split of an oversized cluster with maxSize 1, where the two bounds of the
\* estimator coincide at the number of items, which returned one sub-cluster
\* per item
C26_Witness ==
    /\ pc = "splitDone" /\ Oversized
    /\ maxSize = 1
    /\ ret.success
    /\ Len(ret.subClusters) = Len(callArgs.cluster.Indices)

----------------------------------------------------------------------------
(* Termination of the merge loop *)

SentinelCount == Cardinality({pq \in LivePairs : PairDistance(pq) = MaxFloat32})

\* an iteration that stays in the loop takes a cluster away, or leaves the
\* list alone and marks one pair that was not marked before; the number of
\* clusters and of unmarked pairs cannot go down for ever
LoopProgress ==
    (pc = "loop" /\ pc' = "loop") =>
        \/ Len(clusters') = Len(clusters) - 1
        \/ /\ clusters' = clusters
           /\ SentinelCount' = SentinelCount + 1
           /\ SentinelCount' <= Cardinality(LivePairs)

\* an iteration never repeats the state it started from: when the selected
\* pair is too large to merge, marking it changes the matrix
ExclusionIsNew ==
    PairSelected =>
        \A sel \in {Selected} :
            ExceedsMaxSize(clusters, sel[1], sel[2], maxSize)
                => ExcludePair(distanceMatrix, sel[1], sel[2]) # distanceMatrix

\* C27: the merge loop terminates: every iteration merges a pair or marks one
\* pair that was not excluded before, and it never selects an excluded pair
\* again, which would leave the state as it is for ever.
C27_Termination == []ExclusionIsNew /\ [][LoopProgress]_vars

\* a run that returned after marking every pair of three or more clusters
C27_Witness ==
    /\ Returned
    /\ Len(clusters) > 2
    /\ AllPairsExcluded


----------------------------------------------------------------------------
(* The exclusion of a pair that is too large to merge *)

\* a step of the loop that keeps the number of clusters: lines 228-234
ExclusionStep == pc = "loop" /\ pc' = "loop" /\ Len(clusters') = Len(clusters)

CombinedSize(p, q) == At(clusters, p).Size + At(clusters, q).Size

\* the step marks the selected pair, which is too large, in both directions
\* and touches nothing else
ExclusionMarksSelected ==
    ExclusionStep =>
        \A sel \in {Selected} :
            /\ sel # <<-1, -1>>
            /\ CombinedSize(sel[1], sel[2]) > maxSize
            /\ At(At(distanceMatrix', sel[1]), sel[2]) = MaxFloat32
            /\ At(At(distanceMatrix', sel[2]), sel[1]) = MaxFloat32
            /\ clusters' = clusters
            /\ \A p \in Positions : \A q \in Positions :
                   {p, q} # {sel[1], sel[2]} =>
                       At(At(distanceMatrix', p), q) = Entry(p, q)

\* every sentinel between two distinct live clusters is justified by their sizes
SentinelsJustified ==
    \A p \in Positions : \A q \in Positions :
        (p # q /\ Entry(p, q) = MaxFloat32) => CombinedSize(p, q) > maxSize

\* C28: the loop marks a pair excluded only when the combined size of the two
\* clusters exceeds maxSize, marks both symmetric entries and leaves the list
\* and every other entry unchanged; in every later state an excluded entry
\* between two live clusters still has combined size above maxSize.
C28_ExclusionSound == []SentinelsJustified /\ [][ExclusionMarksSelected]_vars

\* a successful run that marked a pair, reached K by merging other clusters
\* and returned with the marked pair still among its clusters, next to a
\* merged cluster that carries no mark
C28_Witness ==
    /\ pc = "retOK"
    /\ Len(clusters) = nClusters
    /\ At(clusters, LastPosition).Size > 1
    /\ \A r \in Positions \ {LastPosition} : Entry(LastPosition, r) # MaxFloat32
    /\ \E p \in Positions : \E q \in Positions :
           /\ p # q
           /\ Entry(p, q) = MaxFloat32
           /\ Entry(q, p) = MaxFloat32
           /\ CombinedSize(p, q) > maxSize


----------------------------------------------------------------------------
(* The split pass after the merge loop *)

\* line 251: the clusters the split pass hands to splitCluster
SplitInvocations == {k \in 1..Len(clusters) : clusters[k].Size > maxSize}

\* the batch holds a group of more than maxSize items with one and the same vector
TightGroup ==
    \E i \in 1..Len(embeddings) :
        Cardinality({k \in 1..Len(embeddings) : embeddings[k] = embeddings[i]}) > maxSize

\* C29 as stated: agglomeration of a batch with a tight group larger than
\* maxSize leaves a cluster larger than maxSize, for which splitCluster is
\* invoked.
C29_SplitReached ==
    (pc = "assemble" /\ TightGroup) => SplitInvocations # {}

NoSplitAtAssemble == pc = "assemble" => SplitInvocations = {}

SplitPassCopies ==
    pc = "assemble" => (finalClusters' = clusters /\ pc' = "retOK")

\* C29: splitCluster is invoked for exactly the clusters larger than maxSize
\* that the merge loop hands over, and there is none on any run: the split pass
\* copies the cluster list as it is and never fails.
C29_SplitNeverInvoked == []NoSplitAtAssemble /\ [][SplitPassCopies]_vars

\* a run on a batch with a tight group larger than maxSize that returned after
\* the loop filled a cluster up to maxSize and refused to grow it
C29_Witness ==
    /\ pc = "retOK"
    /\ TightGroup
    /\ finalClusters = clusters
    /\ HasExcludedPair
    /\ \E k \in 1..Len(clusters) : clusters[k].Size = maxSize /\ maxSize > 1


----------------------------------------------------------------------------
(* CreateEmbeddingsForAllProducts: one goroutine per product, results written
   by index under a mutex, failures sent to a buffered channel *)

EmbedMaxItems == 3

\* the label set built before the embeddings are created, by index
LabelSet == <<"label">>

\* embeddings.GenerateLabelVector: one-hot vector over the label set
GenerateLabelVector(labels, labelSet) ==
    [k \in 1..Len(labelSet) |-> IF labelSet[k] \in labels THEN Float32(1) ELSE Zero]

\* embeddings.CombineEmbeddings: the embedding followed by the label vector
CombineEmbeddings(embedding, labelVector) == embedding \o labelVector

\* what the network computes for the image stored at a path
ImageEmbedding(imagePath) == <<Float32(imagePath)>>

\* a nil slice and the empty string have length 0; a nil error is the empty
\* sequence and an error a sequence of one message
NilSlice == <<>>
EmptyString == <<>>
NoError == <<>>

\* fmt.Errorf("failed to generate embedding for %s: %v", pd.ProductReferenceID, err)
EmbedError(id) == <<"failed to generate embedding for", id>>

\* product i of the batch: its own ID and image path, any labels
ProductDetails(n) ==
    {pds \in [1..n -> [ProductReferenceID : {RefID(i) : i \in 0..n - 1},
                       ImagePath : 1..n,
                       Labels : SUBSET {"label"}]] :
        \A k \in 1..n : pds[k].ProductReferenceID = RefID(k - 1) /\ pds[k].ImagePath = k}

NotStarted == [at |-> "unspawned", embedding |-> Nil, combinedEmbedding |-> Nil]

EmbedInit ==
    /\ \E n \in 1..EmbedMaxItems : callArgs \in [productDetails : ProductDetails(n)]
    /\ embeddings = <<>>
    /\ productReferenceIDs = <<>>
    /\ ret = Nil
    /\ mu = Unlocked
    /\ wg = 0
    /\ errChan = <<>>
    /\ netOutput = Nil
    /\ goroutines = [k \in 1..Len(callArgs.productDetails) |-> NotStarted]
    /\ spawnIdx = 0
    /\ minSize = 0
    /\ maxSize = 0
    /\ totalItems = 0
    /\ nClusters = 0
    /\ err = FALSE
    /\ clusters = <<>>
    /\ distanceMatrix = <<>>
    /\ finalClusters = <<>>
    /\ clusterMap = Nil
    /\ success = FALSE
    /\ pc = "embedStart"

clusteringVars == <<minSize, maxSize, totalItems, nClusters, err, clusters,
                    distanceMatrix, finalClusters, clusterMap, success>>

NItems == Len(callArgs.productDetails)

\* ProductSetter.go lines 161-166: the result slices, one zero value per product
EmbedMake ==
    /\ pc = "embedStart"
    /\ embeddings' = [k \in 1..NItems |-> NilSlice]
    /\ productReferenceIDs' = [k \in 1..NItems |-> EmptyString]
    /\ pc' = "embedSpawn"
    /\ UNCHANGED <<clusteringVars, callArgs, ret, upstream>>

\* lines 168-170, 190: wg.Add(1); go func(idx, pd){...}(i, product)
EmbedSpawn ==
    /\ pc = "embedSpawn"
    /\ spawnIdx < NItems
    /\ wg' = wg + 1
    /\ goroutines' = [goroutines EXCEPT ![spawnIdx + 1].at = "embed"]
    /\ spawnIdx' = spawnIdx + 1
    /\ UNCHANGED <<clusteringVars, callArgs, ret, embeddings, productReferenceIDs,
                   mu, errChan, netOutput, pc>>

\* the range loop is over
EmbedSpawned ==
    /\ pc = "embedSpawn"
    /\ spawnIdx = NItems
    /\ pc' = "embedWait"
    /\ UNCHANGED <<clusteringVars, callArgs, ret, embeddings, productReferenceIDs, upstream>>

\* lines 174-178: GetImageEmbedding returns an error, which goes to errChan;
\* the channel has room for one error per product, so the send never blocks
GEmbedFail(g) ==
    /\ goroutines[g].at = "embed"
    /\ Len(errChan) < NItems
    /\ errChan' = Append(errChan, EmbedError(callArgs.productDetails[g].ProductReferenceID))
    /\ goroutines' = [goroutines EXCEPT ![g].at = "deferred"]
    /\ UNCHANGED <<clusteringVars, callArgs, ret, embeddings, productReferenceIDs,
                   mu, wg, netOutput, spawnIdx, pc>>

\* line 174 with embeddings.go lines 132-161: under NetMutex the forward pass
\* writes its output, DataPtrFloat32 hands out a slice onto that memory, and
\* the deferred Close and Unlock run before the slice reaches the caller
GEmbedOK(g) ==
    /\ goroutines[g].at = "embed"
    /\ netOutput' = ImageEmbedding(callArgs.productDetails[g].ImagePath)
    /\ goroutines' = [goroutines EXCEPT ![g].at = "combine", ![g].embedding = "dangling"]
    /\ UNCHANGED <<clusteringVars, callArgs, ret, embeddings, productReferenceIDs,
                   mu, wg, errChan, spawnIdx, pc>>

\* what a read through the slice can find after the Mat was closed and the
\* network unlocked: the goroutine's own output, or the output a later forward
\* pass wrote to the same memory
DanglingReads(g) ==
    {ImageEmbedding(callArgs.productDetails[g].ImagePath), netOutput}

\* lines 181-182: label vector and copy into the combined embedding
GCombine(g) ==
    /\ goroutines[g].at = "combine"
    /\ \E read \in DanglingReads(g) :
           goroutines' = [goroutines EXCEPT
               ![g].at = "lock",
               ![g].combinedEmbedding =
                   CombineEmbeddings(read,
                       GenerateLabelVector(callArgs.productDetails[g].Labels, LabelSet))]
    /\ UNCHANGED <<clusteringVars, callArgs, ret, embeddings, productReferenceIDs,
                   mu, wg, errChan, netOutput, spawnIdx, pc>>

\* line 185: mu.Lock()
GLock(g) ==
    /\ goroutines[g].at = "lock"
    /\ mu = Unlocked
    /\ mu' = g
    /\ goroutines' = [goroutines EXCEPT ![g].at = "write"]
    /\ UNCHANGED <<clusteringVars, callArgs, ret, embeddings, productReferenceIDs,
                   wg, errChan, netOutput, spawnIdx, pc>>

\* lines 186-187: both slices are written at the goroutine's own index
GWrite(g) ==
    /\ goroutines[g].at = "write"
    /\ embeddings' = [embeddings EXCEPT ![g] = goroutines[g].combinedEmbedding]
    /\ productReferenceIDs' =
          [productReferenceIDs EXCEPT ![g] = callArgs.productDetails[g].ProductReferenceID]
    /\ goroutines' = [goroutines EXCEPT ![g].at = "unlock"]
    /\ UNCHANGED <<clusteringVars, callArgs, ret, mu, wg, errChan, netOutput, spawnIdx, pc>>

\* line 188: mu.Unlock()
GUnlock(g) ==
    /\ goroutines[g].at = "unlock"
    /\ mu = g
    /\ mu' = Unlocked
    /\ goroutines' = [goroutines EXCEPT ![g].at = "deferred"]
    /\ UNCHANGED <<clusteringVars, callArgs, ret, embeddings, productReferenceIDs,
                   wg, errChan, netOutput, spawnIdx, pc>>

\* line 171: the deferred wg.Done()
GDone(g) ==
    /\ goroutines[g].at = "deferred"
    /\ wg' = wg - 1
    /\ goroutines' = [goroutines EXCEPT ![g].at = "done"]
    /\ UNCHANGED <<clusteringVars, callArgs, ret, embeddings, productReferenceIDs,
                   mu, errChan, netOutput, spawnIdx, pc>>

\* lines 193-194: wg.Wait() returns when the counter is zero; close(errChan)
EmbedWait ==
    /\ pc = "embedWait"
    /\ wg = 0
    /\ pc' = "embedCheck"
    /\ UNCHANGED <<clusteringVars, callArgs, ret, embeddings, productReferenceIDs, upstream>>

\* lines 197-207: the first error of the closed channel, if there is one, is
\* returned with nil slices; otherwise the two slices are returned
EmbedReturn ==
    /\ pc = "embedCheck"
    /\ ret' = IF errChan # <<>>
              THEN [embeddings |-> NilSlice, productReferenceIDs |-> NilSlice,
                    err |-> <<Head(errChan)>>]
              ELSE [embeddings |-> embeddings,
                    productReferenceIDs |-> productReferenceIDs, err |-> NoError]
    /\ errChan' = <<>>
    /\ pc' = "embedReturned"
    /\ UNCHANGED <<clusteringVars, callArgs, embeddings, productReferenceIDs,
                   mu, wg, netOutput, goroutines, spawnIdx>>

Goroutine(g) ==
    \/ GEmbedFail(g)
    \/ GEmbedOK(g)
    \/ GCombine(g)
    \/ GLock(g)
    \/ GWrite(g)
    \/ GUnlock(g)
    \/ GDone(g)

EmbedNext ==
    \/ EmbedMake
    \/ EmbedSpawn
    \/ EmbedSpawned
    \/ \E g \in 1..NItems : Goroutine(g)
    \/ EmbedWait
    \/ EmbedReturn

SpecEmbed == EmbedInit /\ [][EmbedNext]_vars

----------------------------------------------------------------------------
(* The hand-off of the embedding stage *)

AllFinished == \A g \in 1..NItems : goroutines[g].at = "done"

\* GetImageEmbedding returned an error in this goroutine
Failed(g) == goroutines[g].at = "done" /\ goroutines[g].embedding = Nil

\* the combined embedding of product i
EmbeddingOf(i) ==
    CombineEmbeddings(ImageEmbedding(callArgs.productDetails[i].ImagePath),
                      GenerateLabelVector(callArgs.productDetails[i].Labels, LabelSet))

\* the function returns only after every goroutine has finished
ReturnsAfterAll == pc = "embedReturned" => (AllFinished /\ wg = 0 /\ mu = Unlocked)

\* a failed embedding makes the function return the error and nil slices
FailureGivesNoSlices ==
    (pc = "embedReturned" /\ \E g \in 1..NItems : Failed(g)) =>
        /\ ret.err # NoError
        /\ ret.embeddings = NilSlice
        /\ ret.productReferenceIDs = NilSlice

\* on success both slices have one entry per product and position i of the
\* IDs is the ID of product i
SuccessIDsAligned ==
    (pc = "embedReturned" /\ \A g \in 1..NItems : ~Failed(g)) =>
        /\ ret.err = NoError
        /\ Len(ret.embeddings) = NItems
        /\ Len(ret.productReferenceIDs) = NItems
        /\ \A i \in 1..NItems :
               ret.productReferenceIDs[i] = callArgs.productDetails[i].ProductReferenceID

\* on success position i of the vectors is the embedding of product i
SuccessVectorsAligned ==
    (pc = "embedReturned" /\ \A g \in 1..NItems : ~Failed(g)) =>
        \A i \in 1..NItems : ret.embeddings[i] = EmbeddingOf(i)

\* C30: for every interleaving of the goroutines the function returns only
\* after all of them have finished; on success position i of the vectors and
\* position i of the IDs both belong to product i; if any embedding fails the
\* function returns an error and no slices.
C30_HandOff ==
    /\ ReturnsAfterAll
    /\ FailureGivesNoSlices
    /\ SuccessIDsAligned
    /\ SuccessVectorsAligned

====
